---- MODULE Spec2Model ----
(***************************************************************************)
(* A model of allennlp/nn/initializers.py: the Initializer registry and    *)
(* its function wrapper, block_orthogonal, and InitializerApplicator.      *)
(*                                                                         *)
(* Tensors are modelled by their shape and, per element, by the routine    *)
(* call that last wrote the element together with the number of writes     *)
(* the element has received; the numeric values themselves are produced    *)
(* by torch and are not modelled.                                          *)
(***************************************************************************)
EXTENDS Integers, Sequences, FiniteSets, TLC

VARIABLES
    pc,                       \* "new" | "ready" | "done" | "raised" of the run
    arg,                      \* argument of InitializerApplicator.__init__: {} is None, {list} a list
    initializers,             \* InitializerApplicator._initializers
    module,                   \* module.named_parameters(): sequence of [name, tensor]
    calls,                    \* history of initializer(parameter) invocations, in order
    infos,                    \* "Initializing %s using %s" log lines, in order
    unused_regexes,           \* local of __call__
    uninitialized_parameters, \* local of __call__
    warnings,                 \* regexes logged by the "Did not use" warning
    reported,                 \* names logged after "Done initializing parameters"
    doneLogged,               \* whether the "Done initializing parameters" line was logged
    error,                    \* exception that left the operation, or "none"
    tensor,                   \* tensor argument of a direct block_orthogonal call
    split_sizes,              \* split_sizes argument of a direct block_orthogonal call
    gain,                     \* gain argument of a direct block_orthogonal call
    written,                  \* blocks assigned by block_orthogonal, in order
    ret,                      \* return value of block_orthogonal: "None" | "tensor"
    params,                   \* argument of InitializerApplicator.from_params
    given,                    \* history: params as it was when from_params was called
    built                     \* result of from_params: {} (nothing) or {list of pairs}

vars == <<pc, arg, initializers, module, calls, infos, unused_regexes,
          uninitialized_parameters, warnings, reported, doneLogged, error,
          tensor, split_sizes, gain, written, ret, params, given, built>>

applyVars == <<arg, initializers, module, calls, infos, unused_regexes,
               uninitialized_parameters, warnings, reported, doneLogged>>
blockVars == <<tensor, split_sizes, gain, written, ret>>
paramsVars == <<params, given, built>>

(***************************************************************************)
(* Bounds of the model.                                                    *)
(***************************************************************************)
MaxPairs == 2      \* pairs of an applicator
MaxParams == 3     \* named parameters of a module
MaxSize == 4       \* size of a tensor dimension in a direct block_orthogonal call
MaxEntries == 2    \* entries of a from_params list

(***************************************************************************)
(* Generic helpers.                                                        *)
(***************************************************************************)
Range(s) == {s[i] : i \in DOMAIN s}

SeqsUpTo(S, n) == UNION {[1..k -> S] : k \in 0..n}

Min(a, b) == IF a < b THEN a ELSE b

\* list(range(0, stop, step)) for stop >= 0 and step > 0.
PyRange(stop, step) == [k \in 1..((stop + step - 1) \div step) |-> (k - 1) * step]

\* zip(a, b): as long as the shorter of the two.
Zip(a, b) == [k \in 1..Min(Len(a), Len(b)) |-> <<a[k], b[k]>>]

\* itertools.product(*lists): tuples in lexicographic order, first list slowest.
RECURSIVE Product(_)
Product(lists) ==
    IF lists = <<>> THEN << <<>> >>
    ELSE LET head == lists[1]
             rest == Product(Tail(lists))
             n == Len(rest)
         IN [k \in 1..(Len(head) * n) |->
                <<head[((k - 1) \div n) + 1]>> \o rest[((k - 1) % n) + 1]]

(***************************************************************************)
(* Keyword arguments.  A dict of keyword arguments gives every key of Keys *)
(* either {} (key absent) or {value}.                                      *)
(***************************************************************************)
Keys == {"type", "val", "split_sizes", "gain"}

NoKwargs == [k \in Keys |-> {}]

Present(kw) == {k \in Keys : kw[k] # {}}

TheValue(opt) == CHOOSE v \in opt : TRUE

(***************************************************************************)
(* Tensors.                                                                *)
(***************************************************************************)
Indices(sizes) == Range(Product([d \in 1..Len(sizes) |-> PyRange(sizes[d], 1)]))

DefaultCell == [by |-> "default", kw |-> NoKwargs, block |-> <<>>]

\* A tensor as its module's own code left it; isVariable: wrapped as a Variable.
NewTensor(sizes, isVariable) ==
    [sizes |-> sizes, isVariable |-> isVariable,
     data |-> [ix \in Indices(sizes) |-> DefaultCell],
     writes |-> [ix \in Indices(sizes) |-> 0]]

\* Elements selected by tensor[block_slice]: a slice per leading dimension.
SliceIndices(sizes, block_slice) ==
    {ix \in Indices(sizes) :
        \A d \in 1..Len(block_slice) :
            block_slice[d][1] <= ix[d] /\ ix[d] < block_slice[d][2]}

\* A torch.nn.init routine fn called on the elements `where` of t with kw.
TorchInit(fn, t, where, kw, block) ==
    [t EXCEPT !.data = [ix \in DOMAIN t.data |->
                           IF ix \in where
                           THEN [by |-> fn, kw |-> kw, block |-> block]
                           ELSE t.data[ix]],
              !.writes = [ix \in DOMAIN t.writes |->
                           IF ix \in where THEN t.writes[ix] + 1 ELSE t.writes[ix]]]

\* gain : float, optional (default = 1.0)
DefaultGain == 1

Outcome(t, err, r, blocks) == [tensor |-> t, error |-> err, ret |-> r, written |-> blocks]

(***************************************************************************)
(* block_orthogonal(tensor, split_sizes, gain)                             *)
(***************************************************************************)
\* any([a % b != 0 for a, b in zip(sizes, split_sizes)]); the list is built first,
\* so a zero split size raises ZeroDivisionError before any() is evaluated.
DivisibilityCheck(sizes, splits) ==
    LET z == Zip(sizes, splits) IN
    IF \E k \in DOMAIN z : z[k][2] = 0 THEN "ZeroDivisionError"
    ELSE IF \E k \in DOMAIN z : z[k][1] % z[k][2] # 0 THEN "ConfigurationError"
    ELSE "none"

\* Variant: the offsets advance by one instead of by the split size.
IndexesUnitStep(sizes, splits) ==
    LET z == Zip(sizes, splits) IN [k \in DOMAIN z |-> PyRange(z[k][1], 1)]

\* indexes = [list(range(0, max_size, split)) for max_size, split in zip(...)]
Indexes(sizes, splits) ==
    LET z == Zip(sizes, splits) IN [k \in DOMAIN z |-> PyRange(z[k][1], z[k][2])]

\* block_slice for one tuple of block start indices.
BlockSlice(block_start_indices, splits) ==
    LET z == Zip(block_start_indices, splits)
    IN [k \in DOMAIN z |-> <<z[k][1], z[k][1] + z[k][2]>>]

\* The loop over itertools.product(*indexes), from block k on.
RECURSIVE WriteBlocks(_, _, _, _, _)
WriteBlocks(t, blocks, k, splits, g) ==
    IF k > Len(blocks) THEN t
    ELSE WriteBlocks(
            TorchInit("orthogonal", t,
                      SliceIndices(t.sizes, BlockSlice(blocks[k], splits)),
                      [NoKwargs EXCEPT !["gain"] = {g}], blocks[k]),
            blocks, k + 1, splits, g)

\* Lines 68-71: the check made before any block is written.
SizeCheck(t, splits) == DivisibilityCheck(t.sizes, splits)

\* Lines 68-86: the body for a tensor that is not a Variable.
block_orthogonal_tensor(t, splits, g) ==
    LET err == SizeCheck(t, splits)
        blocks == Product(Indexes(t.sizes, splits))
    IN IF err # "none"
       THEN Outcome(t, err, "None", <<>>)
       ELSE Outcome(WriteBlocks(t, blocks, 1, splits, g), "none", "None", blocks)

\* Lines 64-66: a Variable is unwrapped, its data initialized, and itself returned.
block_orthogonal(t, splits, g) ==
    IF t.isVariable
    THEN LET inner == block_orthogonal_tensor([t EXCEPT !.isVariable = FALSE], splits, g)
         IN IF inner.error # "none"
            THEN Outcome(t, inner.error, "None", <<>>)
            ELSE Outcome([inner.tensor EXCEPT !.isVariable = TRUE], "none", "tensor",
                         inner.written)
    ELSE block_orthogonal_tensor(t, splits, g)

(***************************************************************************)
(* The registry and _initializer_wrapper.  An Init object is the routine   *)
(* it wraps (named as in the registry) and its bound keyword arguments.    *)
(***************************************************************************)
Registry ==
    {"normal", "uniform", "orthogonal", "constant", "dirac", "xavier_normal",
     "xavier_uniform", "kaiming_normal", "kaiming_uniform", "sparse", "eye",
     "block_orthogonal"}

\* Init.__init__(**kwargs)
NewInit(fn, kwargs) == [fn |-> fn, kwargs |-> kwargs]

\* Python's binding of block_orthogonal(tensor, split_sizes, gain=1.0) to **kwargs.
BindBlockOrthogonal(kwargs) ==
    IF Present(kwargs) \subseteq {"split_sizes", "gain"} /\ "split_sizes" \in Present(kwargs)
    THEN "none"
    ELSE "TypeError"

\* The keyword arguments, among Keys, that the torch.nn.init routines bound in the
\* registry require and accept (constant(tensor, val), orthogonal(tensor, gain=1),
\* xavier_*(tensor, gain=1); the other routines take none of Keys).
TorchRequired(fn) == IF fn = "constant" THEN {"val"} ELSE {}

TorchAccepted(fn) ==
    CASE fn = "constant" -> {"val"}
      [] fn \in {"orthogonal", "xavier_normal", "xavier_uniform"} -> {"gain"}
      [] OTHER -> {}

\* Python's binding of a torch.nn.init routine to **kwargs.
BindTorch(fn, kwargs) ==
    IF Present(kwargs) \subseteq TorchAccepted(fn) /\ TorchRequired(fn) \subseteq Present(kwargs)
    THEN "none"
    ELSE "TypeError"

\* The wrapped routine called as init_function(tensor, **kwargs).  A torch.nn.init
\* routine returns the tensor it initialized (line 86 assigns that value).
CallRoutine(fn, t, kwargs) ==
    IF fn = "block_orthogonal"
    THEN IF BindBlockOrthogonal(kwargs) # "none"
         THEN Outcome(t, "TypeError", "None", <<>>)
         ELSE block_orthogonal(t, TheValue(kwargs["split_sizes"]),
                               IF kwargs["gain"] = {} THEN DefaultGain
                               ELSE TheValue(kwargs["gain"]))
    ELSE IF BindTorch(fn, kwargs) # "none"
         THEN Outcome(t, "TypeError", "None", <<>>)
         ELSE Outcome(TorchInit(fn, t, Indices(t.sizes), kwargs, <<>>), "none", "tensor", <<>>)

\* Init.__call__(tensor): self._init_function(tensor, **self._kwargs); the value the
\* routine returns is dropped.
InitCall(init, t) ==
    [CallRoutine(init.fn, t, init.kwargs) EXCEPT !.ret = "None"]

(***************************************************************************)
(* Regular expressions: a pattern is a sequence of tokens, "^", "$", "."   *)
(* or a literal character; a name is a sequence of characters.             *)
(***************************************************************************)
RECURSIVE MatchAt(_, _, _, _)
MatchAt(pat, k, name, pos) ==
    IF k > Len(pat) THEN TRUE
    ELSE CASE pat[k] = "^" -> pos = 1 /\ MatchAt(pat, k + 1, name, pos)
           [] pat[k] = "$" -> pos = Len(name) + 1 /\ MatchAt(pat, k + 1, name, pos)
           [] pat[k] = "." -> pos <= Len(name) /\ MatchAt(pat, k + 1, name, pos + 1)
           [] OTHER -> /\ pos <= Len(name)
                       /\ name[pos] = pat[k]
                       /\ MatchAt(pat, k + 1, name, pos + 1)

\* re.search(pattern, name): a match starting anywhere in the name.
re_search(pat, name) == \E pos \in 1..(Len(name) + 1) : MatchAt(pat, 1, name, pos)

(***************************************************************************)
(* InitializerApplicator                                                   *)
(***************************************************************************)
\* __init__: self._initializers = initializers or []
Constructed(a) == IF a = {} THEN <<>> ELSE TheValue(a)

Matching(inits, name) == {k \in DOMAIN inits : re_search(inits[k].regex, name)}

\* Variant: the scan keeps the last matching pair instead of the first.
ScanLastMatch(inits, name) ==
    LET m == Matching(inits, name)
    IN IF m = {} THEN <<>> ELSE <<CHOOSE k \in m : \A j \in m : k >= j>>

\* Variant: the scan has no break, every matching pair runs, in order.
RECURSIVE ScanNoBreakFrom(_, _, _)
ScanNoBreakFrom(inits, name, k) ==
    IF k > Len(inits) THEN <<>>
    ELSE (IF re_search(inits[k].regex, name) THEN <<k>> ELSE <<>>)
         \o ScanNoBreakFrom(inits, name, k + 1)

ScanNoBreak(inits, name) == ScanNoBreakFrom(inits, name, 1)

\* The inner for loop with its break: the pairs whose if-branch runs for a name.
Scan(inits, name) ==
    LET m == Matching(inits, name)
    IN IF m = {} THEN <<>> ELSE <<CHOOSE k \in m : \A j \in m : k <= j>>

\* unused_regexes = set([initializer[0] for initializer in self._initializers])
InitialUnused(inits) == {inits[k].regex : k \in DOMAIN inits}

\* Variant: every pattern that matches the name counts as used.
DiscardMatching(unused, inits, k, name) ==
    unused \ {inits[j].regex : j \in Matching(inits, name)}

\* Variant: the pattern that was used is not discarded.
DiscardNothing(unused, inits, k, name) == unused

\* unused_regexes.discard(initializer_regex), for the pair k that matched the name
Discard(unused, inits, k, name) == unused \ {inits[k].regex}

\* Variant: unmatched names are not collected.
NoBreakForgets(uninitialized, name) == uninitialized

\* else:  # no break
NoBreak(uninitialized, name) == uninitialized \cup {name}

\* Variant: an initializer's exception is swallowed and the loops go on.
RaisedSwallowed(st) == FALSE

\* An exception leaves __call__ where it is raised.
Raised(st) == st.error # "none"

\* The if-branch of the inner loop for the pairs hits[j..], on parameter i.
RECURSIVE Invoke(_, _, _, _, _)
Invoke(st, inits, i, hits, j) ==
    IF j > Len(hits) \/ Raised(st) THEN st
    ELSE LET k == hits[j]
             name == st.module[i].name
             called == [st EXCEPT
                          !.infos = Append(@, <<name, inits[k].regex>>),
                          !.calls = Append(@, [param |-> i, pair |-> k,
                                               fn |-> inits[k].init.fn,
                                               kw |-> inits[k].init.kwargs])]
             Returned(out) ==
                 IF out.error # "none"
                 THEN [called EXCEPT !.error = out.error]
                 ELSE Invoke([called EXCEPT
                                 !.module[i].tensor = out.tensor,
                                 !.unused = Discard(@, inits, k, name)],
                             inits, i, hits, j + 1)
         IN Returned(InitCall(inits[k].init, st.module[i].tensor))

\* The outer for loop over module.named_parameters(), from parameter i on.
RECURSIVE Loop(_, _, _)
Loop(st, inits, i) ==
    IF i > Len(st.module) \/ Raised(st) THEN st
    ELSE LET hits == Scan(inits, st.module[i].name)
         IN Loop(IF hits = <<>>
                 THEN [st EXCEPT !.uninit = NoBreak(@, st.module[i].name)]
                 ELSE Invoke(st, inits, i, hits, 1),
                 inits, i + 1)

\* Lines 161-166, reached only when no exception left the loops.
Finish(st) ==
    IF st.error # "none" THEN st
    ELSE [st EXCEPT !.warnings = st.unused, !.doneLogged = TRUE, !.reported = st.uninit]

\* __call__(module)
apply(inits, m) ==
    Finish(Loop([module |-> m, calls |-> <<>>, infos |-> <<>>,
                 unused |-> InitialUnused(inits), uninit |-> {}, error |-> "none",
                 warnings |-> {}, doneLogged |-> FALSE, reported |-> {}], inits, 1))

\* "w", "^b" and ".w$"
Patterns == {<<"w">>, <<"^", "b">>, <<".", "w", "$">>}

\* The parameters a module may hold: a Parameter (a Variable) of some shape under a name.
ParamChoices ==
    {[name |-> <<"w">>, tensor |-> NewTensor(<<2, 2>>, TRUE)],
     [name |-> <<"b">>, tensor |-> NewTensor(<<2, 3>>, TRUE)],
     [name |-> <<"b", "w">>, tensor |-> NewTensor(<<2, 2>>, TRUE)],
     [name |-> <<"w", "b">>, tensor |-> NewTensor(<<2, 3>>, TRUE)]}

InitChoices ==
    {NewInit("constant", [NoKwargs EXCEPT !["val"] = {1}]),
     NewInit("block_orthogonal", [NoKwargs EXCEPT !["split_sizes"] = {<<1, 2>>}]),
     NewInit("block_orthogonal", NoKwargs)}

Pairs == [regex : Patterns, init : InitChoices]

\* named_parameters() yields each parameter once, under a name of its own.
Modules ==
    {m \in SeqsUpTo(ParamChoices, MaxParams) :
        \A i, j \in DOMAIN m : m[i].name = m[j].name => i = j}

Init ==
    /\ pc = "new" /\ error = "none"
    /\ arg \in {{}} \cup {{l} : l \in SeqsUpTo(Pairs, MaxPairs)}
    /\ module \in Modules
    /\ initializers = <<>> /\ calls = <<>> /\ infos = <<>>
    /\ unused_regexes = {} /\ uninitialized_parameters = {}
    /\ warnings = {} /\ reported = {} /\ doneLogged = FALSE
    /\ tensor = NewTensor(<<>>, FALSE) /\ split_sizes = <<>> /\ gain = DefaultGain
    /\ written = <<>> /\ ret = "None"
    /\ params = <<>> /\ given = <<>> /\ built = {}

\* InitializerApplicator.__init__
Construct ==
    /\ pc = "new"
    /\ initializers' = Constructed(arg)
    /\ pc' = "ready"
    /\ UNCHANGED <<arg, module, calls, infos, unused_regexes, uninitialized_parameters,
                   warnings, reported, doneLogged, error>>
    /\ UNCHANGED blockVars
    /\ UNCHANGED paramsVars

\* InitializerApplicator.__call__
Apply ==
    /\ pc = "ready"
    /\ \E st \in {apply(initializers, module)} :
          /\ module' = st.module
          /\ calls' = st.calls
          /\ infos' = st.infos
          /\ unused_regexes' = st.unused
          /\ uninitialized_parameters' = st.uninit
          /\ error' = st.error
          /\ warnings' = st.warnings
          /\ doneLogged' = st.doneLogged
          /\ reported' = st.reported
          /\ pc' = IF st.error = "none" THEN "done" ELSE "raised"
    /\ UNCHANGED <<arg, initializers>>
    /\ UNCHANGED blockVars
    /\ UNCHANGED paramsVars

Next == Construct \/ Apply

Spec == Init /\ [][Next]_vars

(***************************************************************************)
(* Properties of InitializerApplicator.__call__ (specification Spec).      *)
(***************************************************************************)
ParamIds == DOMAIN module

\* The pairs whose pattern matches the name of parameter i, by regex search.
MatchesOf(i) == {k \in DOMAIN initializers : re_search(initializers[k].regex, module[i].name)}

Lowest(S) == CHOOSE k \in S : \A j \in S : k <= j

Matched == {i \in ParamIds : MatchesOf(i) # {}}

CallsOn(i) == {n \in DOMAIN calls : calls[n].param = i}

\* The value of parameter i before apply, and after pair k's initializer ran on it.
Fresh(i) == NewTensor(module[i].tensor.sizes, TRUE)

Effect(i, k) == InitCall(initializers[k].init, Fresh(i))

AllRegexes == {initializers[k].regex : k \in DOMAIN initializers}

\* C1: every initializer invocation on a parameter whose name some pattern matches
\* is by the lowest-index matching pair, never by a later matching pair; when apply
\* completes that pair's initializer was invoked and the parameter holds its effect.
C1_FirstMatchWins ==
    \A i \in Matched : \A first \in {Lowest(MatchesOf(i))} :
        /\ \A n \in CallsOn(i) : calls[n].pair = first
        /\ pc = "done" =>
              /\ \E n \in CallsOn(i) : calls[n].pair = first
              /\ module[i].tensor = Effect(i, first).tensor

\* Two pairs with observably different initializers match one name; the first ran.
C1_Witness ==
    /\ pc = "done"
    /\ \E i \in ParamIds : \E j, k \in MatchesOf(i) :
          /\ j < k
          /\ j = Lowest(MatchesOf(i))
          /\ Effect(i, k).error = "none"
          /\ Effect(i, j).tensor # Effect(i, k).tensor
          /\ module[i].tensor = Effect(i, j).tensor
          /\ \E n \in CallsOn(i) : calls[n].pair = j

\* C2: when apply completes, every parameter with a matching pattern received exactly
\* one initializer invocation and every other parameter none, the number of
\* invocations is the number of matched parameters, and every element of a matched
\* parameter was written once.
C2_InitializedOnce ==
    pc = "done" =>
        \A matched \in {Matched} :
            /\ \A i \in ParamIds : Cardinality(CallsOn(i)) = IF i \in matched THEN 1 ELSE 0
            /\ Len(calls) = Cardinality(matched)
            /\ \A i \in ParamIds : \A ix \in DOMAIN module[i].tensor.writes :
                  module[i].tensor.writes[ix] = IF i \in matched THEN 1 ELSE 0

\* Two matched parameters, one of them matched by several patterns.
C2_Witness ==
    /\ pc = "done"
    /\ Cardinality(Matched) >= 2
    /\ \E i \in Matched : Cardinality(MatchesOf(i)) >= 2

\* C3 as stated: once apply has ended, completed or not, every parameter whose name
\* matches no pattern had no initializer invoked on it, keeps its pre-apply value and
\* is recorded among the parameters using their default initialization.
C3_AsStated ==
    pc \in {"done", "raised"} =>
        \A i \in ParamIds \ Matched :
            /\ CallsOn(i) = {}
            /\ module[i].tensor = Fresh(i)
            /\ module[i].name \in uninitialized_parameters

\* The named parameters whose selected (first-matching) initializer raises.
Raising == {i \in Matched : Effect(i, Lowest(MatchesOf(i))).error # "none"}

\* C3 amended: a parameter whose name matches no pattern never has an initializer
\* invoked on it, keeps its pre-apply value and is never the cause of an error:
\* apply raises exactly when the initializer selected for some matched parameter
\* raises, and it raises at that parameter.  The parameter is recorded when the
\* loop reaches it and the record is logged only at the end of apply: when apply
\* completes, the names recorded and reported are exactly the unmatched ones; when
\* apply raises, the names recorded are exactly the unmatched ones before the
\* raising parameter, and nothing is reported.
C3_UnmatchedUntouched ==
    \A unmatched \in {ParamIds \ Matched} :
        /\ \A i \in unmatched :
              /\ CallsOn(i) = {}
              /\ module[i].tensor = Fresh(i)
        /\ pc \in {"done", "raised"} =>
              \A raising \in {Raising} :
                  /\ pc = "raised" <=> raising # {}
                  /\ pc = "done" =>
                        /\ error = "none"
                        /\ uninitialized_parameters = {module[i].name : i \in unmatched}
                        /\ reported = uninitialized_parameters
                        /\ doneLogged
                  /\ pc = "raised" =>
                        /\ calls # <<>>
                        /\ calls[Len(calls)].param = Lowest(raising)
                        /\ calls[Len(calls)].param \notin unmatched
                        /\ error = Effect(Lowest(raising),
                                          Lowest(MatchesOf(Lowest(raising)))).error
                        /\ uninitialized_parameters =
                              {module[i].name : i \in {u \in unmatched : u < Lowest(raising)}}
                        /\ reported = {}
                        /\ ~doneLogged

\* A completed apply with an unmatched parameter next to a matched one.
C3_Witness ==
    /\ pc = "done"
    /\ initializers # <<>>
    /\ Matched # {}
    /\ \E i \in ParamIds \ Matched : module[i].name \in reported

\* C4 as stated: after a completed apply, a pattern is warned as unused if and only
\* if it matched no parameter name.
C4_AsStated ==
    pc = "done" =>
        warnings = {r \in AllRegexes :
                       \A i \in ParamIds : ~re_search(r, module[i].name)}

\* The patterns named by an "Initializing %s using %s" log line.
UsedRegexes == {infos[n][2] : n \in DOMAIN infos}

\* C4 amended: after a completed apply, a pattern is warned as unused if and only if
\* no parameter was initialized under it; every pattern that matches no name is
\* warned, no error is raised, and no pattern under which a parameter was
\* initialized is warned.
C4_UnusedIffNotUsed ==
    pc = "done" =>
        /\ error = "none"
        /\ warnings = AllRegexes \ UsedRegexes
        /\ \A r \in AllRegexes :
              (\A i \in ParamIds : ~re_search(r, module[i].name)) => r \in warnings

\* One pattern matched nothing and is warned, another was used and is not.
C4_Witness ==
    /\ pc = "done"
    /\ \E r \in warnings : \A i \in ParamIds : ~re_search(r, module[i].name)
    /\ \E r \in AllRegexes \ warnings : r \in UsedRegexes

\* The pattern strings of the pairs that are the first match of some parameter.
Winners == {initializers[Lowest(MatchesOf(i))].regex : i \in Matched}

\* C9: after a completed apply the patterns warned as unused are exactly the distinct
\* pattern strings that no winning (first-matching) pair carries.
C9_UnusedByWinning ==
    pc = "done" => warnings = AllRegexes \ Winners

\* A pattern that matches a parameter name is warned all the same: an earlier
\* pattern won every name it matches.
C9_Witness ==
    /\ pc = "done"
    /\ Winners # {}
    /\ \E r \in warnings : \E i \in ParamIds : re_search(r, module[i].name)

\* C10: when the initializer selected for a parameter raises, apply ends with that
\* error at that parameter: the matched parameters before it hold their
\* initializer's effect, no initializer was invoked on a later parameter, and
\* neither the unused-pattern warnings nor the default-initialization report is
\* emitted.
C10_ErrorPropagates ==
    pc = "raised" =>
        /\ calls # <<>>
        /\ LET last == calls[Len(calls)]
           IN /\ last.pair = Lowest(MatchesOf(last.param))
              /\ error = Effect(last.param, last.pair).error
              /\ error \in {"ConfigurationError", "TypeError"}
              /\ \A i \in ParamIds :
                    /\ (i < last.param /\ MatchesOf(i) # {}) =>
                          \A done \in {Effect(i, Lowest(MatchesOf(i)))} :
                              /\ Cardinality(CallsOn(i)) = 1
                              /\ done.error = "none"
                              /\ module[i].tensor = done.tensor
                              /\ module[i].tensor # Fresh(i)
                    /\ i > last.param => CallsOn(i) = {} /\ module[i].tensor = Fresh(i)
        /\ warnings = {} /\ reported = {} /\ ~doneLogged

\* The second of three parameters raises: the first stays initialized, the third
\* would have matched, and a pattern that was not used goes unwarned.
C10_Witness ==
    /\ pc = "raised"
    /\ Len(module) = 3
    /\ calls[Len(calls)].param = 2
    /\ 1 \in Matched /\ 3 \in Matched
    /\ module[1].tensor # Fresh(1)
    /\ unused_regexes # {}

(***************************************************************************)
(* Construction from configuration.  An initializer specification is a     *)
(* bare string (isStr, str) or a Params object (dict, with the same        *)
(* representation as keyword arguments).                                   *)
(***************************************************************************)
\* Registrable.list_available()
list_available == Registry

\* Registrable.by_name(name): the registered class, or a configuration error.
by_name(name) ==
    IF name \in Registry
    THEN [error |-> "none", class |-> {name}]
    ELSE [error |-> "ConfigurationError", class |-> {}]

\* Params.pop_choice(key, choices): pops the key from the Params object in place,
\* then requires the value to be one of the choices.  A missing key is a
\* configuration error; a value outside the choices is one too, raised after the
\* key was removed.
pop_choice(dict, key, choices) ==
    IF dict[key] = {}
    THEN [error |-> "ConfigurationError", value |-> {}, rest |-> dict]
    ELSE IF ~(dict[key] \subseteq choices)
    THEN [error |-> "ConfigurationError", value |-> {}, rest |-> [dict EXCEPT ![key] = {}]]
    ELSE [error |-> "none", value |-> dict[key], rest |-> [dict EXCEPT ![key] = {}]]

\* Params.as_dict()
as_dict(dict) == dict

\* An exception leaving Initializer.from_params; p is the specification as it is left.
Failed(err, p) == [error |-> err, init |-> {}, params |-> p]

\* Variant: the remaining fields are not bound as keyword arguments.
Init_from_params_NoKwargs(class, dict) == [error |-> "none", init |-> {NewInit(class, NoKwargs)}]

\* Init.from_params(params): cls(**params.as_dict())
Init_from_params(class, dict) == [error |-> "none", init |-> {NewInit(class, as_dict(dict))}]

\* Variant: a name that is not registered falls back to default_implementation.
Initializer_from_params_Default(p) ==
    LET name == IF p.isStr THEN {p.str} ELSE p.dict["type"]
        class == IF name # {} /\ name \subseteq Registry THEN TheValue(name) ELSE "normal"
        popped == IF p.isStr THEN p ELSE [p EXCEPT !.dict["type"] = {}]
    IN [error |-> "none",
        init |-> {NewInit(class, IF p.isStr THEN NoKwargs ELSE as_dict(popped.dict))},
        params |-> popped]

\* Initializer.from_params(params): the initializer built, or the exception, and the
\* specification as the call leaves it (pop_choice removes "type" from a Params).
Initializer_from_params(p) ==
    IF p.isStr
    THEN LET c == by_name(p.str)
         IN IF c.error # "none" THEN Failed(c.error, p)
            ELSE [error |-> "none", init |-> {NewInit(TheValue(c.class), NoKwargs)},
                  params |-> p]
    ELSE LET choice == pop_choice(p.dict, "type", list_available)
             popped == [p EXCEPT !.dict = choice.rest]
         IN IF choice.error # "none" THEN Failed(choice.error, popped)
            ELSE LET c == by_name(TheValue(choice.value))
                 IN IF c.error # "none" THEN Failed(c.error, popped)
                    ELSE LET r == Init_from_params(TheValue(c.class), popped.dict)
                         IN [error |-> r.error, init |-> r.init, params |-> popped]

\* The list comprehension of InitializerApplicator.from_params, from entry k on; ps
\* is the list as the entries before k left it.  An exception ends it at once, so the
\* entries after the failing one are not touched.
RECURSIVE Comprehension(_, _, _)
Comprehension(ps, k, acc) ==
    IF k > Len(ps) THEN [error |-> "none", list |-> {acc}, params |-> ps]
    ELSE LET r == Initializer_from_params(ps[k].spec)
             after == [ps EXCEPT ![k].spec = r.params]
         IN IF r.error # "none" THEN [error |-> r.error, list |-> {}, params |-> after]
            ELSE Comprehension(after, k + 1,
                               Append(acc, [regex |-> ps[k].regex, init |-> TheValue(r.init)]))

\* InitializerApplicator.from_params(params): the applicator or the exception, and
\* params as the call leaves it.
from_params(ps) ==
    LET c == Comprehension(ps, 1, <<>>)
    IN IF c.error # "none" THEN [error |-> c.error, applicator |-> {}, params |-> c.params]
       ELSE [error |-> "none", applicator |-> {Constructed(c.list)}, params |-> c.params]

ExtraFields ==
    {NoKwargs,
     [NoKwargs EXCEPT !["val"] = {1}],
     [NoKwargs EXCEPT !["split_sizes"] = {<<1, 2>>}, !["gain"] = {2}]}

StringSpecs ==
    {[isStr |-> TRUE, str |-> n, dict |-> NoKwargs] :
        n \in {"normal", "block_orthogonal", "not_a_real_name"}}

DictSpecs ==
    {[isStr |-> FALSE, str |-> "", dict |-> [x EXCEPT !["type"] = ty]] :
        x \in ExtraFields,
        ty \in {{}, {"constant"}, {"block_orthogonal"}, {"not_a_real_name"}}}

ConfigPatterns == {<<"w">>, <<"^", "b">>}

Entries == [regex : ConfigPatterns, spec : StringSpecs \cup DictSpecs]

InitParams ==
    /\ pc = "new" /\ error = "none"
    /\ params \in SeqsUpTo(Entries, MaxEntries)
    /\ given = params
    /\ built = {}
    /\ arg = {} /\ initializers = <<>> /\ module = <<>> /\ calls = <<>>
    /\ infos = <<>> /\ unused_regexes = {} /\ uninitialized_parameters = {}
    /\ warnings = {} /\ reported = {} /\ doneLogged = FALSE
    /\ tensor = NewTensor(<<2, 2>>, TRUE) /\ split_sizes = <<>> /\ gain = DefaultGain
    /\ written = <<>> /\ ret = "None"

\* InitializerApplicator.from_params
FromParams ==
    /\ pc = "new"
    /\ \E r \in {from_params(params)} :
          /\ built' = r.applicator
          /\ params' = r.params
          /\ error' = r.error
          /\ initializers' = IF r.error = "none" THEN TheValue(r.applicator) ELSE <<>>
          /\ pc' = IF r.error = "none" THEN "ready" ELSE "raised"
    /\ UNCHANGED <<given, arg, module, calls, infos, unused_regexes,
                   uninitialized_parameters, warnings, reported, doneLogged>>
    /\ UNCHANGED blockVars

\* Init.__call__ of one initializer of the applicator that was built.
CallBuilt ==
    /\ pc = "ready"
    /\ \E k \in DOMAIN initializers :
          \E out \in {InitCall(initializers[k].init, tensor)} :
             /\ calls' = Append(calls, [param |-> 0, pair |-> k,
                                        fn |-> initializers[k].init.fn,
                                        kw |-> initializers[k].init.kwargs])
             /\ tensor' = out.tensor
             /\ written' = out.written
             /\ error' = out.error
             /\ pc' = IF out.error = "none" THEN "done" ELSE "raised"
    /\ UNCHANGED <<split_sizes, gain, ret>>
    /\ UNCHANGED <<arg, initializers, module, infos, unused_regexes,
                   uninitialized_parameters, warnings, reported, doneLogged>>
    /\ UNCHANGED paramsVars

NextParams == FromParams \/ CallBuilt

SpecParams == InitParams /\ [][NextParams]_vars

(***************************************************************************)
(* Direct calls of block_orthogonal.                                       *)
(***************************************************************************)
\* Dimensions of the tensor: orthogonal initialization needs at least two.
Ranks == {2, 3}

SplitValues == 0..MaxSize

InitBlock ==
    /\ pc = "ready" /\ error = "none"
    /\ arg = {} /\ initializers = <<>> /\ module = <<>> /\ calls = <<>>
    /\ infos = <<>> /\ unused_regexes = {} /\ uninitialized_parameters = {}
    /\ warnings = {} /\ reported = {} /\ doneLogged = FALSE
    /\ params = <<>> /\ given = <<>> /\ built = {}
    /\ \E r \in Ranks, isVar \in BOOLEAN :
          \E sizes \in [1..r -> 1..MaxSize] : tensor = NewTensor(sizes, isVar)
    /\ \E r \in Ranks : split_sizes \in [1..r -> SplitValues]
    /\ gain = DefaultGain
    /\ written = <<>> /\ ret = "None"

CallBlockOrthogonal ==
    /\ pc = "ready"
    /\ \E out \in {block_orthogonal(tensor, split_sizes, gain)} :
          /\ tensor' = out.tensor
          /\ error' = out.error
          /\ ret' = out.ret
          /\ written' = out.written
          /\ pc' = IF out.error = "none" THEN "done" ELSE "raised"
    /\ UNCHANGED <<split_sizes, gain>>
    /\ UNCHANGED applyVars
    /\ UNCHANGED paramsVars

NextBlock == CallBlockOrthogonal

SpecBlock == InitBlock /\ [][NextBlock]_vars

(***************************************************************************)
(* Properties of block_orthogonal (specification SpecBlock).               *)
(***************************************************************************)
Rank == Len(tensor.sizes)

\* b divides a, over the naturals: a = q * b for some q.
Divides(b, a) == \E q \in 0..a : q * b = a

\* One positive split size per dimension, each dividing its dimension.
EvenSplit ==
    /\ Len(split_sizes) = Rank
    /\ \A d \in 1..Rank : split_sizes[d] > 0 /\ Divides(split_sizes[d], tensor.sizes[d])

\* The Cartesian product of the offsets 0, split, 2*split, ... below each size.
Offsets ==
    {b \in [1..Rank -> 0..MaxSize] :
        \A d \in 1..Rank : b[d] < tensor.sizes[d] /\ Divides(split_sizes[d], b[d])}

\* Element ix lies in the block that starts at b.
InBlock(ix, b) == \A d \in 1..Rank : b[d] <= ix[d] /\ ix[d] < b[d] + split_sizes[d]

\* C5: for split sizes that evenly divide every dimension, block_orthogonal
\* completes, the blocks it assigns are the Cartesian product of the per-dimension
\* offsets, each assigned once, and they tile the tensor: every element lies in
\* exactly one assigned block and is written exactly once, by that block.
C5_BlocksTile ==
    (pc # "ready" /\ EvenSplit) =>
        /\ pc = "done"
        /\ Range(written) = Offsets
        /\ \A m, n \in DOMAIN written : written[m] = written[n] => m = n
        /\ \A ix \in DOMAIN tensor.data :
              /\ Cardinality({n \in DOMAIN written : InBlock(ix, written[n])}) = 1
              /\ tensor.writes[ix] = 1
              /\ tensor.data[ix].by = "orthogonal"
              /\ InBlock(ix, tensor.data[ix].block)

\* A tensor cut into at least four blocks, some dimension in blocks wider than one.
C5_Witness ==
    /\ pc = "done"
    /\ EvenSplit
    /\ Len(written) >= 4
    /\ \E d \in 1..Rank : split_sizes[d] >= 2 /\ tensor.sizes[d] > split_sizes[d]

\* Some dimension is not divisible by the split size paired with it.
Unaligned ==
    \E d \in 1..Min(Rank, Len(split_sizes)) : ~Divides(split_sizes[d], tensor.sizes[d])

\* C6: whenever some dimension is not divisible by its split size, block_orthogonal
\* fails with a configuration error and leaves the tensor as it was, no block
\* written, also for a tensor wrapped as a Variable.
C6_UnalignedIsConfigurationError ==
    (pc # "ready" /\ Unaligned) =>
        /\ pc = "raised"
        /\ error = "ConfigurationError"
        /\ written = <<>>
        /\ tensor = NewTensor(tensor.sizes, tensor.isVariable)

(***************************************************************************)
(* Properties of construction from configuration (specification            *)
(* SpecParams).                                                            *)
(***************************************************************************)
\* The name a specification asks for, if any.
NameOf(spec) == IF spec.isStr THEN {spec.str} ELSE spec.dict["type"]

NamesUnregistered(spec) == NameOf(spec) # {} /\ ~(NameOf(spec) \subseteq Registry)

NamesRegistered(spec) == NameOf(spec) # {} /\ NameOf(spec) \subseteq Registry

\* C7: an initializer specification naming an unregistered initializer, as a bare
\* string or in the type field, fails with a configuration error and constructs
\* nothing; from_params on a list holding such an entry yields no applicator.
C7_UnknownNameFails ==
    /\ \A k \in DOMAIN given :
          NamesUnregistered(given[k].spec) =>
              /\ Initializer_from_params(given[k].spec).error = "ConfigurationError"
              /\ Initializer_from_params(given[k].spec).init = {}
    /\ (pc # "new" /\ \E k \in DOMAIN given : NamesUnregistered(given[k].spec)) =>
          /\ pc = "raised"
          /\ error = "ConfigurationError"
          /\ built = {}
          /\ initializers = <<>>
          /\ calls = <<>>

\* from_params failed on a list with an unregistered bare string and an unregistered
\* type field.
C7_Witness ==
    /\ pc = "raised"
    /\ built = {}
    /\ \E j, k \in DOMAIN given :
          /\ given[j].spec.isStr /\ NamesUnregistered(given[j].spec)
          /\ ~given[k].spec.isStr /\ NamesUnregistered(given[k].spec)

\* The initializer a specification with a registered name stands for.
Specified(spec) ==
    IF spec.isStr
    THEN [fn |-> spec.str, kwargs |-> NoKwargs]
    ELSE [fn |-> TheValue(spec.dict["type"]),
          kwargs |-> [k \in Keys |-> IF k = "type" THEN {} ELSE spec.dict[k]]]

\* C8: from_params on entries with registered names yields an applicator with one
\* pair per entry, in order, with the entry's pattern; a bare string gives the named
\* initializer with no keyword arguments, a structured specification the initializer
\* named by type with exactly the other fields; calling one invokes its routine with
\* those keyword arguments on the tensor.
C8_BuiltAsConfigured ==
    (pc # "new" /\ \A k \in DOMAIN given : NamesRegistered(given[k].spec)) =>
        /\ built = {initializers}
        /\ Len(initializers) = Len(given)
        /\ \A k \in DOMAIN given :
              /\ initializers[k].regex = given[k].regex
              /\ initializers[k].init = Specified(given[k].spec)
        /\ \A n \in DOMAIN calls :
              /\ calls[n].fn = Specified(given[calls[n].pair].spec).fn
              /\ calls[n].kw = Specified(given[calls[n].pair].spec).kwargs
              /\ (pc = "done" /\ calls[n].fn # "block_orthogonal") =>
                    \A ix \in DOMAIN tensor.data :
                        tensor.data[ix] = [by |-> calls[n].fn, kw |-> calls[n].kw,
                                           block |-> <<>>]
              /\ (pc = "done" /\ calls[n].fn = "block_orthogonal") =>
                    \A ix \in DOMAIN tensor.data :
                        /\ tensor.data[ix].by = "orthogonal"
                        /\ tensor.data[ix].kw["gain"] = calls[n].kw["gain"]

\* A bare string and a structured specification with an extra field; the structured
\* one was called and its routine received the field.
C8_Witness ==
    /\ pc = "done"
    /\ Len(given) = 2
    /\ given[1].spec.isStr
    /\ ~given[2].spec.isStr
    /\ given[2].spec.dict["val"] # {}
    /\ calls # <<>>
    /\ calls[1].pair = 2
    /\ calls[1].kw["val"] = given[2].spec.dict["val"]

====
